---- MODULE Spec2Model ----
(***************************************************************************)
(* JustIn: adaptive just intonation for MIDI pitches                       *)
(* (src/justin-min-es2015.js).                                             *)
(*                                                                         *)
(* Numbers.  The program computes with JavaScript Numbers; the model uses  *)
(* exact fixed-point integers:                                             *)
(*   - a pitch (equalPitch, justPitch) is held in units of 1/Scale of a    *)
(*     semitone, Scale = 100 * MaxNotes!, so that the two-decimal table    *)
(*     values and the division by numNotes in meanAdjust are exact;        *)
(*   - intensity is held in quarters (0.75 is 3);                          *)
(*   - a bend is held in units of 1/(4 * Scale) of a semitone.             *)
(* Array.prototype.sort is modelled as a stable sort (it is stable in the  *)
(* SpiderMonkey engine of Max's js object).                                *)
(***************************************************************************)
EXTENDS Integers, Sequences, FiniteSets, TLC

\* ---------------------------------------------------------------- bounds
\* the largest number of Notes held at once (note-ons beyond it are not fed)
MaxNotes == 4

\* the MIDI pitches, velocities, limits, flags and intensities fed to the program
PitchSet == {60, 64, 68, 79}
VelocitySet == {0, 100}

\* the note events fed: every pitch at every velocity, and one event with a
\* velocity below 0
NoteEventSet == (PitchSet \X VelocitySet) \cup {<<64, -1>>}
LimitSet == {5, 7, 9, 11, 13}
FlagSet == {0, 1, 2}
IntensitySet == {2, 3, 6}

RECURSIVE Fact(_)
Fact(n) == IF n <= 1 THEN 1 ELSE n * Fact(n - 1)

\* units per semitone of a pitch value
Scale == 100 * Fact(MaxNotes)

\* a table value given in hundredths of a semitone, in pitch units
Hundredths(x) == x * Fact(MaxNotes)

\* ---------------------------------------------------------------- objects
Note(_pitch, _velocity) ==
  [equalPitch |-> _pitch * Scale, justPitch |-> _pitch * Scale,
   order |-> -1, velocity |-> _velocity]

JustObj(equalInterval, justInterval, order) ==
  [equalInterval |-> equalInterval, justInterval |-> Hundredths(justInterval),
   order |-> order]

\* fiveLimit with the order of the major third typed as 3
fiveLimitTypo == <<
  JustObj(0, 0, 11), JustObj(1, 112, 1), JustObj(2, 204, 6),
  JustObj(3, 316, 10), JustObj(4, 386, 3), JustObj(5, 498, 9),
  JustObj(6, 590, 3), JustObj(7, 702, 8), JustObj(8, 814, 4),
  JustObj(9, 884, 5), JustObj(10, 996, 7), JustObj(11, 1088, 0) >>

fiveLimit == <<
  JustObj(0, 0, 11), JustObj(1, 112, 1), JustObj(2, 204, 6),
  JustObj(3, 316, 10), JustObj(4, 386, 2), JustObj(5, 498, 9),
  JustObj(6, 590, 3), JustObj(7, 702, 8), JustObj(8, 814, 4),
  JustObj(9, 884, 5), JustObj(10, 996, 7), JustObj(11, 1088, 0) >>

sevenLimit == <<
  JustObj(0, 0, 11), JustObj(1, 112, 1), JustObj(2, 204, 6),
  JustObj(3, 316, 9), JustObj(4, 386, 3), JustObj(5, 498, 2),
  JustObj(6, 590, 10), JustObj(7, 702, 8), JustObj(8, 814, 4),
  JustObj(9, 884, 5), JustObj(10, 969, 7), JustObj(11, 1088, 0) >>

elevenLimit == <<
  JustObj(0, 0, 11), JustObj(1, 112, 1), JustObj(2, 204, 9),
  JustObj(3, 316, 3), JustObj(4, 386, 2), JustObj(5, 498, 6),
  JustObj(6, 551, 10), JustObj(7, 702, 8), JustObj(8, 814, 4),
  JustObj(9, 884, 5), JustObj(10, 969, 7), JustObj(11, 1088, 0) >>

thirteenLimit == <<
  JustObj(0, 0, 11), JustObj(1, 112, 1), JustObj(2, 204, 9),
  JustObj(3, 316, 3), JustObj(4, 386, 2), JustObj(5, 498, 6),
  JustObj(6, 551, 10), JustObj(7, 702, 8), JustObj(8, 840, 4),
  JustObj(9, 884, 5), JustObj(10, 969, 7), JustObj(11, 1088, 0) >>

\* ---------------------------------------------------------------- state
VARIABLES
  heldNotes,   \* the Array of Note objects currently active
  justSystem,  \* the selected table
  meanMode,    \* Boolean
  intensity,   \* in quarters
  out,         \* the messages the last call sent through output(), in order
  posted,      \* the errors the last call sent through postError(), in order
  call         \* the last call and its arguments

vars == <<heldNotes, justSystem, meanMode, intensity, out, posted, call>>

\* ---------------------------------------------------------------- output
Msg(name, args) == [name |-> name, args |-> args]

noteCtrlOut(pitch, velocity) == Msg("noteControl", <<pitch, velocity>>)

\* bend * intensity, in units of 1/(4 * Scale)
noteMsgOut(pitch, bend, inten) == Msg("noteMessage", <<pitch, bend * inten>>)

\* the lists are joined with " " by the program; the model keeps the list
pitchListsOut(notes, inten) ==
  << Msg("justPitches",
         [k \in 1..Len(notes) |->
            (notes[k].justPitch - notes[k].equalPitch) * inten
              + 4 * notes[k].equalPitch]),
     Msg("equalPitches",
         [k \in 1..Len(notes) |-> notes[k].equalPitch \div Scale]) >>

\* the loop of offsetOctaveOut from index i (counted from 0): a later Note of
\* the same pitch class overwrites the slot
RECURSIVE offsetOctaveLoop(_, _, _, _)
offsetOctaveLoop(notes, inten, i, offsetArr) ==
  IF i < Len(notes)
  THEN LET N == notes[i + 1]
       IN offsetOctaveLoop(notes, inten, i + 1,
            [offsetArr EXCEPT ![((N.equalPitch \div Scale) % 12) + 1] =
               (N.justPitch - N.equalPitch) * inten])
  ELSE offsetArr

offsetOctaveOut(notes, inten) ==
  Msg("offsetOctave",
      offsetOctaveLoop(notes, inten, 0, <<0, 0, 0, 0, 0, 0, 0, 0, 0, 0, 0, 0>>))

offsetListOut(notes, inten) ==
  Msg("offsetList",
      [k \in 1..Len(notes) |->
         (notes[k].justPitch - notes[k].equalPitch) * inten])

justCompOut(notes, inten) ==
  pitchListsOut(notes, inten)
    \o << offsetOctaveOut(notes, inten), offsetListOut(notes, inten) >>

allNoteMsgOut(notes, inten) ==
  [k \in 1..Len(notes) |->
     noteMsgOut(notes[k].equalPitch \div Scale,
                notes[k].justPitch - notes[k].equalPitch, inten)]
    \o justCompOut(notes, inten)

\* ---------------------------------------------------------------- note set
\* addNote that skips a pitch that is already held
addNoteDedup(notes, pitch, velocity) ==
  IF \E k \in 1..Len(notes) : notes[k].equalPitch = pitch * Scale
  THEN notes
  ELSE Append(notes, Note(pitch, velocity))

addNote(notes, pitch, velocity) == Append(notes, Note(pitch, velocity))

\* heldNotes.splice(n, 1), n counted from 0
removeNote(notes, n) ==
  SubSeq(notes, 1, n) \o SubSeq(notes, n + 2, Len(notes))

\* the note-off loop of noteHandler: i counts from 0 and advances after a
\* removal as well, the length is re-read at every test
RECURSIVE noteOffLoop(_, _, _)
noteOffLoop(notes, pitch, i) ==
  IF i < Len(notes)
  THEN IF pitch * Scale = notes[i + 1].equalPitch
       THEN noteOffLoop(removeNote(notes, i), pitch, i + 1)
       ELSE noteOffLoop(notes, pitch, i + 1)
  ELSE notes

\* noteHandler with velocity 0 classified as a note-on
noteHandlerZeroIsOn(notes, pitch, velocity) ==
  LET isNoteOn == velocity >= 0
  IN IF isNoteOn THEN addNote(notes, pitch, velocity)
     ELSE noteOffLoop(notes, pitch, 0)

noteHandler(notes, pitch, velocity) ==
  LET isNoteOn == velocity > 0
  IN IF isNoteOn THEN addNote(notes, pitch, velocity)
     ELSE noteOffLoop(notes, pitch, 0)

\* ---------------------------------------------------------------- retuning
\* resetJustPitches without the reset of order
resetKeepsOrder(noteArr) ==
  [k \in 1..Len(noteArr) |->
     [noteArr[k] EXCEPT !.justPitch = noteArr[k].equalPitch]]

resetJustPitches(noteArr) ==
  [k \in 1..Len(noteArr) |->
     [noteArr[k] EXCEPT !.justPitch = noteArr[k].equalPitch, !.order = -1]]

\* stable sort by the comparator a.equalPitch - b.equalPitch
sortPitchesAscending(noteArr) ==
  LET n == Len(noteArr)
      before(j, i) ==
        \/ noteArr[j].equalPitch - noteArr[i].equalPitch < 0
        \/ (noteArr[j].equalPitch - noteArr[i].equalPitch = 0 /\ j < i)
      pos(i) == Cardinality({j \in 1..n : before(j, i)}) + 1
  IN [k \in 1..n |-> noteArr[CHOOSE i \in 1..n : pos(i) = k]]

\* JavaScript's %: the sign of the result is the sign of the dividend
JsMod(a, n) == IF a >= 0 THEN a % n ELSE -((-a) % n)

\* updateOrder without the comparison
updateOrderOverwrites(N, order) == [N EXCEPT !.order = order]

updateOrder(N, order) ==
  IF order > N.order THEN [N EXCEPT !.order = order] ELSE N

\* createInterval moving the lower Note on a tie of the orders
createIntervalTieMovesLo(Hi, Lo, interval) ==
  IF Hi.order >= Lo.order
  THEN << Hi, [Lo EXCEPT !.justPitch = Hi.justPitch - interval] >>
  ELSE << [Hi EXCEPT !.justPitch = Lo.justPitch + interval], Lo >>

\* the pair <<Hi, Lo>> after createInterval(Hi, Lo, interval)
createInterval(Hi, Lo, interval) ==
  IF Hi.order > Lo.order
  THEN << Hi, [Lo EXCEPT !.justPitch = Hi.justPitch - interval] >>
  ELSE << [Hi EXCEPT !.justPitch = Lo.justPitch + interval], Lo >>

\* the pair body with the within-octave just interval taken for the
\* compound interval
adjustPairNoOctaves(noteArr, sys, lo, hi) ==
  LET LoNote == noteArr[lo + 1]
      HiNote == noteArr[hi + 1]
      interval == (HiNote.equalPitch - LoNote.equalPitch) \div Scale
      IntervalObj == sys[JsMod(interval, 12) + 1]
      intervalIsHigherOrder ==
        IntervalObj.order > HiNote.order \/ IntervalObj.order > LoNote.order
      made == createInterval(HiNote, LoNote, IntervalObj.justInterval)
  IN IF intervalIsHigherOrder
     THEN [noteArr EXCEPT ![hi + 1] = updateOrder(made[1], IntervalObj.order),
                          ![lo + 1] = updateOrder(made[2], IntervalObj.order)]
     ELSE noteArr

\* the body of the inner loop of adjustPitches for the pair (lo, hi),
\* both counted from 0
adjustPair(noteArr, sys, lo, hi) ==
  LET LoNote == noteArr[lo + 1]
      HiNote == noteArr[hi + 1]
      interval == (HiNote.equalPitch - LoNote.equalPitch) \div Scale
      IntervalObj == sys[JsMod(interval, 12) + 1]
      intervalIsHigherOrder ==
        IntervalObj.order > HiNote.order \/ IntervalObj.order > LoNote.order
      compoundJustInterval ==
        (IntervalObj.justInterval - JsMod(interval, 12) * Scale)
          + interval * Scale
      made == createInterval(HiNote, LoNote, compoundJustInterval)
  IN IF intervalIsHigherOrder
     THEN [noteArr EXCEPT ![hi + 1] = updateOrder(made[1], IntervalObj.order),
                          ![lo + 1] = updateOrder(made[2], IntervalObj.order)]
     ELSE noteArr

RECURSIVE adjustInner(_, _, _, _)
adjustInner(noteArr, sys, lo, hi) ==
  IF hi < Len(noteArr)
  THEN adjustInner(adjustPair(noteArr, sys, lo, hi), sys, lo, hi + 1)
  ELSE noteArr

RECURSIVE adjustOuter(_, _, _)
adjustOuter(noteArr, sys, lo) ==
  IF lo < Len(noteArr) - 1
  THEN adjustOuter(adjustInner(noteArr, sys, lo, lo + 1), sys, lo + 1)
  ELSE noteArr

adjustPitches(noteArr, sys) == adjustOuter(noteArr, sys, 0)

RECURSIVE SumField(_, _, _)
SumField(notes, k, justp) ==
  IF k > Len(notes) THEN 0
  ELSE (IF justp THEN notes[k].justPitch ELSE notes[k].equalPitch)
         + SumField(notes, k + 1, justp)

offsetAllPitches(notes, offset) ==
  [k \in 1..Len(notes) |->
     [notes[k] EXCEPT !.justPitch = notes[k].justPitch + offset]]

\* meanAdjust with the offset taken the wrong way round
meanAdjustSignSlip(notes) ==
  LET equalTotal == SumField(notes, 1, FALSE)
      justTotal == SumField(notes, 1, TRUE)
      numNotes == Len(notes)
      diff == justTotal - equalTotal
      meanOffset == IF diff >= 0 THEN diff \div numNotes
                    ELSE -((-diff) \div numNotes)
  IN offsetAllPitches(notes, meanOffset)

\* (equalTotal - justTotal) is a multiple of MaxNotes! here, so the
\* division by numNotes is exact
meanAdjust(notes) ==
  LET equalTotal == SumField(notes, 1, FALSE)
      justTotal == SumField(notes, 1, TRUE)
      numNotes == Len(notes)
      diff == equalTotal - justTotal
      meanOffset == IF diff >= 0 THEN diff \div numNotes
                    ELSE -((-diff) \div numNotes)
  IN offsetAllPitches(notes, meanOffset)

\* fixedJustify sorting and adjusting only above two Notes
fixedJustifyLengthOverTwo(notes, sys, mean) ==
  LET reset == resetJustPitches(notes)
  IN IF Len(reset) > 2
     THEN LET adjusted == adjustPitches(sortPitchesAscending(reset), sys)
          IN IF mean THEN meanAdjust(adjusted) ELSE adjusted
     ELSE reset

\* fixedJustify with the reset moved inside the test on the length
fixedJustifyResetInside(notes, sys, mean) ==
  IF Len(notes) > 1
  THEN LET adjusted ==
             adjustPitches(sortPitchesAscending(resetJustPitches(notes)), sys)
       IN IF mean THEN meanAdjust(adjusted) ELSE adjusted
  ELSE notes

fixedJustify(notes, sys, mean) ==
  LET reset == resetJustPitches(notes)
  IN IF Len(reset) > 1
     THEN LET adjusted == adjustPitches(sortPitchesAscending(reset), sys)
          IN IF mean THEN meanAdjust(adjusted) ELSE adjusted
     ELSE reset

\* justify running the pass without resetJustPitches
justifyWithoutReset(notes, sys, mean) ==
  IF Len(notes) > 1
  THEN LET adjusted == adjustPitches(sortPitchesAscending(notes), sys)
       IN IF mean THEN meanAdjust(adjusted) ELSE adjusted
  ELSE notes

justify(notes, sys, mean) ==
  IF Len(notes) > 0 THEN fixedJustify(notes, sys, mean) ELSE notes

\* ---------------------------------------------------------------- calls
Call(op, args) == [op |-> op, args |-> args]

Init ==
  /\ heldNotes = << >>
  /\ justSystem = fiveLimit
  /\ meanMode = TRUE
  /\ intensity = 3
  /\ out = << >>
  /\ posted = << >>
  /\ call = Call("load", << >>)

\* noteIn sending done before the noteMessages
noteInDoneFirst(pitch, velocity) ==
  /\ velocity > 0 => Len(heldNotes) < MaxNotes
  /\ LET handled == noteHandler(heldNotes, pitch, velocity)
         tuned == justify(handled, justSystem, meanMode)
     IN /\ heldNotes' = tuned
        /\ out' = << noteCtrlOut(pitch, velocity), Msg("done", << >>) >>
                    \o allNoteMsgOut(tuned, intensity)
  /\ posted' = << >>
  /\ call' = Call("noteIn", <<pitch, velocity>>)
  /\ UNCHANGED <<justSystem, meanMode, intensity>>

noteIn(pitch, velocity) ==
  /\ velocity > 0 => Len(heldNotes) < MaxNotes
  /\ LET handled == noteHandler(heldNotes, pitch, velocity)
         tuned == justify(handled, justSystem, meanMode)
     IN /\ heldNotes' = tuned
        /\ out' = << noteCtrlOut(pitch, velocity) >>
                    \o allNoteMsgOut(tuned, intensity)
                    \o << Msg("done", << >>) >>
  /\ posted' = << >>
  /\ call' = Call("noteIn", <<pitch, velocity>>)
  /\ UNCHANGED <<justSystem, meanMode, intensity>>

ValidLimit(val) == val \in {5, 7, 11, 13}

\* setLimit with justify() called before the switch
setLimitStaleTable(val) ==
  /\ justSystem' = CASE val = 5 -> fiveLimit
                     [] val = 7 -> sevenLimit
                     [] val = 11 -> elevenLimit
                     [] val = 13 -> thirteenLimit
                     [] OTHER -> justSystem
  /\ posted' = IF ValidLimit(val) THEN << >> ELSE << "Tuning not available." >>
  /\ heldNotes' = justify(heldNotes, justSystem, meanMode)
  /\ out' = << >>
  /\ call' = Call("setLimit", <<val>>)
  /\ UNCHANGED <<meanMode, intensity>>

\* setLimit with a default case that falls back to the 5-limit table
setLimitDefaultsToFive(val) ==
  /\ justSystem' = CASE val = 5 -> fiveLimit
                     [] val = 7 -> sevenLimit
                     [] val = 11 -> elevenLimit
                     [] val = 13 -> thirteenLimit
                     [] OTHER -> fiveLimit
  /\ posted' = IF ValidLimit(val) THEN << >> ELSE << "Tuning not available." >>
  /\ heldNotes' = justify(heldNotes, justSystem', meanMode)
  /\ out' = << >>
  /\ call' = Call("setLimit", <<val>>)
  /\ UNCHANGED <<meanMode, intensity>>

setLimit(val) ==
  /\ justSystem' = CASE val = 5 -> fiveLimit
                     [] val = 7 -> sevenLimit
                     [] val = 11 -> elevenLimit
                     [] val = 13 -> thirteenLimit
                     [] OTHER -> justSystem
  /\ posted' = IF ValidLimit(val) THEN << >> ELSE << "Tuning not available." >>
  /\ heldNotes' = justify(heldNotes, justSystem', meanMode)
  /\ out' = << >>
  /\ call' = Call("setLimit", <<val>>)
  /\ UNCHANGED <<meanMode, intensity>>

\* bool == false and bool == true for the numbers a Max message carries
LooseFalse(bool) == bool = 0
LooseTrue(bool) == bool = 1

\* setMeanMode followed by justify()
setMeanModeRetunes(bool) ==
  /\ meanMode' = IF LooseFalse(bool) THEN FALSE
                 ELSE IF LooseTrue(bool) THEN TRUE
                 ELSE meanMode
  /\ posted' = IF LooseFalse(bool) \/ LooseTrue(bool) THEN << >>
               ELSE << "Not valid." >>
  /\ heldNotes' = justify(heldNotes, justSystem, meanMode')
  /\ out' = << >>
  /\ call' = Call("setMeanMode", <<bool>>)
  /\ UNCHANGED <<justSystem, intensity>>

\* setMeanMode taking every value that is not false for true
setMeanModeElseTrue(bool) ==
  /\ meanMode' = IF LooseFalse(bool) THEN FALSE ELSE TRUE
  /\ posted' = IF LooseFalse(bool) \/ LooseTrue(bool) THEN << >>
               ELSE << "Not valid." >>
  /\ out' = << >>
  /\ call' = Call("setMeanMode", <<bool>>)
  /\ UNCHANGED <<heldNotes, justSystem, intensity>>

setMeanMode(bool) ==
  /\ meanMode' = IF LooseFalse(bool) THEN FALSE
                 ELSE IF LooseTrue(bool) THEN TRUE
                 ELSE meanMode
  /\ posted' = IF LooseFalse(bool) \/ LooseTrue(bool) THEN << >>
               ELSE << "Not valid." >>
  /\ out' = << >>
  /\ call' = Call("setMeanMode", <<bool>>)
  /\ UNCHANGED <<heldNotes, justSystem, intensity>>

\* setIntensity calling justify() in place of adjustPitches()
setIntensityRetunes(val) ==
  /\ intensity' = val
  /\ heldNotes' = justify(heldNotes, justSystem, meanMode)
  /\ out' = allNoteMsgOut(heldNotes', intensity')
  /\ posted' = << >>
  /\ call' = Call("setIntensity", <<val>>)
  /\ UNCHANGED <<justSystem, meanMode>>

setIntensity(val) ==
  /\ intensity' = val
  /\ heldNotes' = adjustPitches(heldNotes, justSystem)
  /\ out' = allNoteMsgOut(heldNotes', intensity')
  /\ posted' = << >>
  /\ call' = Call("setIntensity", <<val>>)
  /\ UNCHANGED <<justSystem, meanMode>>

\* allNotesOff without the assignment of the empty array
allNotesOffKeepsNotes ==
  /\ out' = [k \in 1..Len(heldNotes) |->
               noteCtrlOut(heldNotes[k].equalPitch \div Scale, 0)]
  /\ heldNotes' = heldNotes
  /\ posted' = << >>
  /\ call' = Call("allNotesOff", << >>)
  /\ UNCHANGED <<justSystem, meanMode, intensity>>

allNotesOff ==
  /\ out' = [k \in 1..Len(heldNotes) |->
               noteCtrlOut(heldNotes[k].equalPitch \div Scale, 0)]
  /\ heldNotes' = << >>
  /\ posted' = << >>
  /\ call' = Call("allNotesOff", << >>)
  /\ UNCHANGED <<justSystem, meanMode, intensity>>

Next ==
  \/ \E event \in NoteEventSet : noteIn(event[1], event[2])
  \/ \E val \in LimitSet : setLimit(val)
  \/ \E bool \in FlagSet : setMeanMode(bool)
  \/ \E val \in IntensitySet : setIntensity(val)
  \/ allNotesOff

Spec == Init /\ [][Next]_vars

TypeOK ==
  /\ Len(heldNotes) <= MaxNotes
  /\ justSystem \in {fiveLimit, sevenLimit, elevenLimit, thirteenLimit}
  /\ meanMode \in BOOLEAN
  /\ intensity \in IntensitySet
\* ---------------------------------------------------------------- properties
\* the number of held Notes whose equalPitch is the MIDI pitch p
Count(notes, p) ==
  Cardinality({k \in 1..Len(notes) : notes[k].equalPitch = p * Scale})

\* the held Notes as the sequence of their <<MIDI pitch, velocity>>
Held(notes) ==
  [k \in 1..Len(notes) |-> <<notes[k].equalPitch \div Scale, notes[k].velocity>>]

\* the table setLimit(val) selects
TableFor(val) ==
  CASE val = 5 -> fiveLimit
    [] val = 7 -> sevenLimit
    [] val = 11 -> elevenLimit
    [] val = 13 -> thirteenLimit

\* C1: a note event (p, 0) for a pitch held k >= 1 times removes exactly one
\* Note of pitch p (k - 1 remain) and keeps every Note of another pitch.
C1_NoteOffRemovesExactlyOne ==
  [][\A p \in PitchSet :
       (call' = Call("noteIn", <<p, 0>>) /\ Count(heldNotes, p) >= 1)
         => /\ Count(heldNotes', p) = Count(heldNotes, p) - 1
            /\ \A q \in PitchSet \ {p} :
                 Count(heldNotes', q) = Count(heldNotes, q)]_vars

\* C2: setIntensity(v) leaves every held Note (justPitch, order, position)
\* as it was, and emits for the k-th held Note the noteMessage with bend
\* (justPitch - equalPitch) * v.
C2_SetIntensityKeepsNotes ==
  [][\A v \in IntensitySet :
       call' = Call("setIntensity", <<v>>)
         => /\ heldNotes' = heldNotes
            /\ Len(out') >= Len(heldNotes)
            /\ \A k \in 1..Len(heldNotes) :
                 out'[k] =
                   Msg("noteMessage",
                       << heldNotes[k].equalPitch \div Scale,
                          (heldNotes[k].justPitch - heldNotes[k].equalPitch) * v >>)
            /\ \A k \in (Len(heldNotes) + 1)..Len(out') :
                 out'[k].name # "noteMessage"]_vars

\* setIntensity(0.5) has run on a chord whose lowest Note is off its
\* equalPitch while meanMode is off: the pitches stem from a mean-centred
\* pass that a new pass would not reproduce
C2_Witness ==
  /\ call = Call("setIntensity", <<2>>)
  /\ Len(heldNotes) >= 2
  /\ ~meanMode
  /\ heldNotes[1].justPitch # heldNotes[1].equalPitch

\* C3: after a retuning pass (a note event or setLimit) run with meanMode
\* on, the justPitch values of the held Notes sum to the sum of their
\* equalPitch values, for any number n >= 1 of held Notes.
C3_MeanCentering ==
  (call.op \in {"noteIn", "setLimit"} /\ meanMode /\ Len(heldNotes) >= 1)
    => SumField(heldNotes, 1, TRUE) = SumField(heldNotes, 1, FALSE)

\* a mean-centred pass has moved every Note of a chord of three with a
\* duplicated pitch
C3_Witness ==
  /\ call.op = "noteIn"
  /\ meanMode
  /\ Len(heldNotes) >= 3
  /\ \E k \in 1..(Len(heldNotes) - 1) :
       heldNotes[k].equalPitch = heldNotes[k + 1].equalPitch
  /\ \A k \in 1..Len(heldNotes) :
       heldNotes[k].justPitch # heldNotes[k].equalPitch
\* C4 as stated: right after setMeanMode(flag) with a valid flag that
\* changes the mode, the held Notes are those of a full retuning pass under
\* the new mode.
C4_MeanModeChangeRetunes ==
  [][\A b \in {0, 1} :
       (call' = Call("setMeanMode", <<b>>) /\ meanMode # (b = 1))
         => heldNotes' = fixedJustify(heldNotes, justSystem, b = 1)]_vars

\* C4, amended: setMeanMode(flag) with a valid flag sets meanMode to the
\* flag and leaves every held Note (justPitch, order, position), the table
\* and the intensity as they were; the mode is applied by the next retuning
\* pass: the Notes a note event or setLimit leaves are those of a full pass
\* under the meanMode then current.
C4_MeanModeAppliesAtNextPass ==
  [][/\ \A b \in {0, 1} :
          call' = Call("setMeanMode", <<b>>)
            => /\ meanMode' = (b = 1)
               /\ heldNotes' = heldNotes
               /\ justSystem' = justSystem
               /\ intensity' = intensity
     /\ \A p \in PitchSet, v \in VelocitySet :
          call' = Call("noteIn", <<p, v>>)
            => heldNotes' = fixedJustify(noteHandler(heldNotes, p, v),
                                         justSystem, meanMode)
     /\ call'.op = "setLimit"
          => heldNotes' = fixedJustify(heldNotes, justSystem', meanMode)]_vars

\* setMeanMode(0) has switched the mode off under a held chord that is
\* still mean-centred: its lowest Note is off its equalPitch
C4_Witness ==
  /\ call = Call("setMeanMode", <<0>>)
  /\ ~meanMode
  /\ Len(heldNotes) >= 2
  /\ heldNotes[1].justPitch # heldNotes[1].equalPitch
  /\ SumField(heldNotes, 1, TRUE) = SumField(heldNotes, 1, FALSE)

\* C5: after setLimit(L), L in {5, 7, 11, 13}, the selected table is the
\* table of L and the held Notes are those of a full retuning pass (reset,
\* sort, pairwise adjustment, mean-centring if enabled) over the held set
\* under that table.
C5_SetLimitRetunes ==
  [][\A L \in {5, 7, 11, 13} :
       call' = Call("setLimit", <<L>>)
         => /\ justSystem' = TableFor(L)
            /\ heldNotes' = fixedJustify(heldNotes, TableFor(L), meanMode)]_vars

\* setLimit(13) has retuned a held chord: the 13-limit table is selected
\* and two Notes a minor sixth apart are 8.40 semitones apart
C5_Witness ==
  /\ call = Call("setLimit", <<13>>)
  /\ justSystem = thirteenLimit
  /\ Len(heldNotes) = 2
  /\ heldNotes[2].equalPitch - heldNotes[1].equalPitch = 8 * Scale
  /\ heldNotes[2].justPitch - heldNotes[1].justPitch = Hundredths(840)

\* C6: setLimit(v) with v outside {5, 7, 11, 13} posts an error and leaves
\* the selected table as it was.
C6_InvalidLimitKeepsTable ==
  [][\A v \in LimitSet \ {5, 7, 11, 13} :
       call' = Call("setLimit", <<v>>)
         => /\ justSystem' = justSystem
            /\ posted' # << >>]_vars

\* setLimit(9) was rejected while the 11-limit table was selected
C6_Witness ==
  /\ call = Call("setLimit", <<9>>)
  /\ posted # << >>
  /\ justSystem = elevenLimit

\* whether the call is an invalid configuration command
InvalidConfiguration(c) ==
  \/ (c.op = "setLimit" /\ ~ValidLimit(c.args[1]))
  \/ (c.op = "setMeanMode" /\ ~(LooseFalse(c.args[1]) \/ LooseTrue(c.args[1])))

\* C7 as stated: an invalid configuration command changes nothing: table,
\* meanMode, intensity and the held Notes (equalPitch, justPitch, order,
\* position) are as before.
C7_InvalidConfigurationNoOp ==
  [][InvalidConfiguration(call')
       => UNCHANGED <<heldNotes, justSystem, meanMode, intensity>>]_vars

\* C7, amended: an invalid configuration command posts an error and leaves
\* the table, meanMode, intensity and every held Note's equalPitch, velocity
\* and position as they were; setMeanMode with an invalid flag leaves
\* justPitch and order as they were too, setLimit with an unrecognized limit
\* runs a retuning pass, which leaves the Notes of a full pass under the
\* unchanged table and the current meanMode.
C7_InvalidConfigurationKeepsSettings ==
  [][InvalidConfiguration(call')
       => /\ UNCHANGED <<justSystem, meanMode, intensity>>
          /\ posted' # << >>
          /\ Held(heldNotes') = Held(heldNotes)
          /\ call'.op = "setMeanMode" => heldNotes' = heldNotes
          /\ call'.op = "setLimit"
               => heldNotes' = fixedJustify(heldNotes, justSystem, meanMode)]_vars

\* setLimit(9) was rejected with a chord held and meanMode off; the pass it
\* ran has left the lowest Note on its equalPitch and moved another
C7_Witness ==
  /\ call = Call("setLimit", <<9>>)
  /\ posted # << >>
  /\ ~meanMode
  /\ Len(heldNotes) >= 2
  /\ heldNotes[1].justPitch = heldNotes[1].equalPitch
  /\ heldNotes[2].justPitch # heldNotes[2].equalPitch

\* C8: a note event (p, 0) for a pitch no held Note has leaves the held
\* Notes' equalPitch, velocity and order as they were, and its first
\* message is noteControl(p, 0).
C8_NoteOffOfUnheldPitch ==
  [][\A p \in PitchSet :
       (call' = Call("noteIn", <<p, 0>>) /\ Count(heldNotes, p) = 0)
         => /\ Held(heldNotes') = Held(heldNotes)
            /\ out'[1] = Msg("noteControl", <<p, 0>>)]_vars

\* a note-off has left MaxNotes Notes held: it removed none, as no note-on
\* is fed beyond MaxNotes
C8_Witness ==
  /\ call.op = "noteIn"
  /\ call.args[2] = 0
  /\ Len(heldNotes) = MaxNotes
  /\ Count(heldNotes, call.args[1]) = 0
  /\ out[1] = Msg("noteControl", <<call.args[1], 0>>)

\* C9: allNotesOff() emits exactly one noteControl(equalPitch, 0) per held
\* Note, duplicates included, in the order of heldNotes, and leaves
\* heldNotes empty; a retuning pass run on the empty set changes nothing.
C9_AllNotesOff ==
  [][/\ call'.op = "allNotesOff"
          => /\ out' = [k \in 1..Len(heldNotes) |->
                          Msg("noteControl",
                              <<heldNotes[k].equalPitch \div Scale, 0>>)]
             /\ heldNotes' = << >>
     /\ (heldNotes = << >> /\ call'.op = "setLimit") => heldNotes' = << >>]_vars

\* allNotesOff() has emptied a chord of at least three Notes, two of them
\* of the same pitch
C9_Witness ==
  /\ call.op = "allNotesOff"
  /\ heldNotes = << >>
  /\ Len(out) >= 3
  /\ out[1] = out[2]
  /\ out[2] # out[3]

\* C10: whenever exactly one Note is held, its justPitch is its equalPitch
\* and its order is -1.
C10_SingleNoteUntuned ==
  Len(heldNotes) = 1
    => /\ heldNotes[1].justPitch = heldNotes[1].equalPitch
       /\ heldNotes[1].order = -1

\* a note-off has left exactly one Note held, with meanMode off and the
\* 7-limit table selected
C10_Witness ==
  /\ call.op = "noteIn"
  /\ call.args[2] = 0
  /\ Len(heldNotes) = 1
  /\ Count(heldNotes, call.args[1]) = 0
  /\ ~meanMode
  /\ justSystem = sevenLimit
\* the noteMessage the program owes the k-th Note of notes at intensity inten
BendMsg(notes, k, inten) ==
  Msg("noteMessage",
      << notes[k].equalPitch \div Scale,
         (notes[k].justPitch - notes[k].equalPitch) * inten >>)

\* the positions of the messages of that name in a sequence of messages
Named(msgs, name) == {k \in 1..Len(msgs) : msgs[k].name = name}

\* whether the last call ran a retuning pass
PassRan == call.op \in {"noteIn", "setLimit"}

\* C11: after every retuning pass, whatever triggered it (a note-on, a
\* note-off or setLimit), one noteMessage(equalPitch,
\* (justPitch - equalPitch) * intensity) is emitted for every held Note.
C11_PassEmitsNoteMessages ==
  PassRan
    => /\ Cardinality(Named(out, "noteMessage")) = Len(heldNotes)
       /\ \A k \in 1..Len(heldNotes) :
            \E m \in Named(out, "noteMessage") :
              out[m] = BendMsg(heldNotes, k, intensity)

\* C12: the messages of one note event (p, v) are noteControl(p, v) first,
\* then exactly one noteMessage per Note held after the event, in the order
\* of heldNotes, then the diagnostics, and exactly one done, last.
C12_NoteEventOutputOrder ==
  call.op = "noteIn"
    => /\ Len(out) >= Len(heldNotes) + 2
       /\ out[1] = Msg("noteControl", call.args)
       /\ Named(out, "noteControl") = {1}
       /\ \A k \in 1..Len(heldNotes) :
            out[k + 1] = BendMsg(heldNotes, k, intensity)
       /\ Named(out, "noteMessage") = 2..(Len(heldNotes) + 1)
       /\ Named(out, "done") = {Len(out)}

\* a note-off has left a retuned chord of three Notes behind
C12_Witness ==
  /\ call.op = "noteIn"
  /\ call.args[2] = 0
  /\ Len(heldNotes) = 3
  /\ Len(out) = 9
  /\ out[3].args[2] # 0

\* C13: a retuning pass run right after a retuning pass, with no event in
\* between, leaves every held Note's justPitch and order as the first pass
\* left them.
C13_PassIdempotent ==
  PassRan => justify(heldNotes, justSystem, meanMode) = heldNotes

\* a pass has retuned a chord of three Notes to which a note-on had just
\* added one, with meanMode on
C13_Witness ==
  /\ call.op = "noteIn"
  /\ call.args[2] > 0
  /\ meanMode
  /\ Len(heldNotes) = 3
  /\ \A k \in 1..3 : heldNotes[k].justPitch # heldNotes[k].equalPitch

\* C14: with meanMode off, after a retuning pass over two or more Notes the
\* first (lowest) Note of heldNotes has its justPitch on its equalPitch.
C14_LowestNoteAnchored ==
  (PassRan /\ ~meanMode /\ Len(heldNotes) >= 2)
    => heldNotes[1].justPitch = heldNotes[1].equalPitch

\* with meanMode off a pass has moved every Note of a chord of three but
\* the lowest
C14_Witness ==
  /\ PassRan
  /\ ~meanMode
  /\ Len(heldNotes) = 3
  /\ heldNotes[1].justPitch = heldNotes[1].equalPitch
  /\ heldNotes[2].justPitch # heldNotes[2].equalPitch
  /\ heldNotes[3].justPitch # heldNotes[3].equalPitch

\* the offset of a Note from its equalPitch
Offset(N) == N.justPitch - N.equalPitch

\* C15: with exactly two Notes lo < hi held, d semitones apart, after a
\* retuning pass justPitch(hi) - justPitch(lo) is d plus the deviation
\* table[d mod 12].justInterval - (d mod 12); with meanMode off lo has no
\* offset and hi the whole deviation, with meanMode on the offsets are
\* opposite; 60 and 64 under the 5-limit table get 0 / -0.14 and
\* +0.07 / -0.07; a note event emits the offsets times the intensity.
C15_TwoNoteChord ==
  (PassRan /\ Len(heldNotes) = 2
     /\ heldNotes[1].equalPitch < heldNotes[2].equalPitch)
    => LET lo == heldNotes[1]
           hi == heldNotes[2]
           d == (hi.equalPitch - lo.equalPitch) \div Scale
           deviation == justSystem[(d % 12) + 1].justInterval - (d % 12) * Scale
       IN /\ hi.justPitch - lo.justPitch = d * Scale + deviation
          /\ ~meanMode => (Offset(lo) = 0 /\ Offset(hi) = deviation)
          /\ meanMode => (Offset(lo) = -Offset(hi) /\ 2 * Offset(hi) = deviation)
          /\ (lo.equalPitch = 60 * Scale /\ hi.equalPitch = 64 * Scale
                /\ justSystem = fiveLimit)
               => /\ ~meanMode => Offset(hi) = Hundredths(-14)
                  /\ meanMode => (Offset(lo) = Hundredths(7)
                                    /\ Offset(hi) = Hundredths(-7))
          /\ call.op = "noteIn"
               => /\ out[2].args = <<lo.equalPitch \div Scale, Offset(lo) * intensity>>
                  /\ out[3].args = <<hi.equalPitch \div Scale, Offset(hi) * intensity>>

\* a note event has left 60 and 79 held, more than an octave apart, with
\* meanMode on and the intensity at 1.5
C15_Witness ==
  /\ call.op = "noteIn"
  /\ Held(heldNotes) = << <<60, 100>>, <<79, 100>> >>
  /\ meanMode
  /\ intensity = 6
  /\ Offset(heldNotes[1]) = -Offset(heldNotes[2])
  /\ Offset(heldNotes[2]) # 0
\* whether a table has 12 entries, entry i for the chromatic class i, the
\* orders a permutation of 0..11, and the unison at deviation 0 and order 11
TableShape(t) ==
  /\ Len(t) = 12
  /\ \A i \in 1..12 : t[i].equalInterval = i - 1
  /\ {t[i].order : i \in 1..12} = 0..11
  /\ t[1].justInterval = 0
  /\ t[1].order = 11

\* C16: each of the four tables has exactly 12 entries, entry i of
\* chromatic class i, orders that are a permutation of 0..11, and a first
\* entry of deviation 0 and order 11; so has the table that is selected.
C16_TableShape ==
  /\ \A t \in {fiveLimit, sevenLimit, elevenLimit, thirteenLimit} : TableShape(t)
  /\ TableShape(justSystem)

\* the 13-limit table has been selected and has retuned a held chord
C16_Witness ==
  /\ call = Call("setLimit", <<13>>)
  /\ justSystem = thirteenLimit
  /\ Len(heldNotes) >= 2

\* a sequence without its k-th element
Without(seq, k) == SubSeq(seq, 1, k - 1) \o SubSeq(seq, k + 1, Len(seq))

\* C17: a note event (p, v) with v > 0 adds exactly one Note of pitch p and
\* velocity v to the held Notes, also when p is already held, and keeps the
\* others; a note event with v <= 0 adds no Note.
C17_NoteOnAddsOneNote ==
  [][\A event \in NoteEventSet :
       LET p == event[1]
           v == event[2]
       IN
       call' = Call("noteIn", <<p, v>>)
         => IF v > 0
            THEN /\ Len(heldNotes') = Len(heldNotes) + 1
                 /\ \E k \in 1..Len(heldNotes') :
                      /\ Held(heldNotes')[k] = <<p, v>>
                      /\ Without(Held(heldNotes'), k) = Held(heldNotes)
            ELSE /\ Len(heldNotes') <= Len(heldNotes)
                 /\ \A q \in PitchSet : Count(heldNotes', q) <= Count(heldNotes, q)]_vars

\* a note-on of a pitch that was already held twice has added a third Note
C17_Witness ==
  /\ call.op = "noteIn"
  /\ call.args[2] > 0
  /\ Count(heldNotes, call.args[1]) = 3
  /\ Len(heldNotes) = MaxNotes

\* the held MIDI pitches of the set S in ascending order, each as often as
\* it is held
RECURSIVE Ascending(_, _)
Ascending(notes, S) ==
  IF S = {} THEN << >>
  ELSE LET m == CHOOSE x \in S : \A y \in S : x <= y
       IN [k \in 1..Count(notes, m) |-> m] \o Ascending(notes, S \ {m})

\* the tuning of the held pitches when they are struck afresh, lowest first
FreshTuning(notes, sys, mean) ==
  LET ps == Ascending(notes, PitchSet)
  IN fixedJustify([k \in 1..Len(ps) |-> Note(ps[k], 0)], sys, mean)

\* the Notes without their velocity
Tuning(notes) ==
  [k \in 1..Len(notes) |->
     <<notes[k].equalPitch, notes[k].justPitch, notes[k].order>>]

\* C18: right after any note event the justPitch and order of the held
\* Notes are a function of the held pitches (with their multiplicities),
\* the selected table and meanMode alone: they are those of the same
\* pitches struck afresh in ascending order, whatever events came before.
C18_HistoryIndependent ==
  call.op = "noteIn"
    => Tuning(heldNotes) = Tuning(FreshTuning(heldNotes, justSystem, meanMode))

\* a note-off has left a retuned chord of three under the 7-limit table
\* with meanMode off, both set by earlier calls
C18_Witness ==
  /\ call.op = "noteIn"
  /\ call.args[2] <= 0
  /\ Len(heldNotes) = 3
  /\ ~meanMode
  /\ justSystem = sevenLimit
  /\ heldNotes[3].justPitch # heldNotes[3].equalPitch

\* C19: between calls heldNotes is sorted ascending by equalPitch (equal
\* pitches are adjacent, and no pair lo < hi has a negative interval).
C19_HeldNotesSorted ==
  \A lo \in 1..Len(heldNotes), hi \in 1..Len(heldNotes) :
    lo < hi => heldNotes[hi].equalPitch - heldNotes[lo].equalPitch >= 0

\* a note-on of the lowest pitch, appended last, stands first, and
\* setIntensity has since run on the chord
C19_Witness ==
  /\ call.op = "setIntensity"
  /\ Len(heldNotes) >= 3
  /\ heldNotes[1].equalPitch < heldNotes[2].equalPitch
  /\ heldNotes[2].equalPitch = heldNotes[3].equalPitch

\* the largest table order among the intervals the i-th Note forms with the
\* other held Notes
MaxRank(notes, sys, i) ==
  LET ranks == {sys[(((IF notes[i].equalPitch >= notes[j].equalPitch
                        THEN notes[i].equalPitch - notes[j].equalPitch
                        ELSE notes[j].equalPitch - notes[i].equalPitch)
                       \div Scale) % 12) + 1].order :
                  j \in (1..Len(notes)) \ {i}}
  IN CHOOSE r \in ranks : \A q \in ranks : q <= r

\* C20: after a retuning pass over two or more Notes every Note's order is
\* the largest table order among the intervals it forms with the other
\* held Notes, and a further adjustPitches without reset changes nothing.
C20_OrderIsMaxRank ==
  (PassRan /\ Len(heldNotes) >= 2)
    => /\ \A i \in 1..Len(heldNotes) :
            heldNotes[i].order = MaxRank(heldNotes, justSystem, i)
       /\ adjustPitches(heldNotes, justSystem) = heldNotes

\* a pass has left a chord of three distinct pitches whose orders differ:
\* a later pair has raised the order of a Note an earlier pair had set
C20_Witness ==
  /\ PassRan
  /\ Len(heldNotes) = 3
  /\ heldNotes[1].equalPitch < heldNotes[2].equalPitch
  /\ heldNotes[2].equalPitch < heldNotes[3].equalPitch
  /\ heldNotes[1].order < heldNotes[2].order
====
